---- MODULE Spec2Model ----
(***************************************************************************)
(* geth-proxy: the cached chain-head snapshot (lastBlock / getLastBlock),   *)
(* the stats goroutine that polls it, the /healthz handler built on it,     *)
(* and the unconditional single-host proxy route.                           *)
(*                                                                          *)
(* Two builds of the program are modelled.  variant = "cached" is           *)
(* src/main.go (healthz goes through getLastBlock, a stats goroutine polls  *)
(* it).  variant = "direct" is src/unnamed/part_001 (isReady and isLive     *)
(* call BlockByNumber themselves; there is no cache and no goroutine).      *)
(*                                                                          *)
(* Time is a discrete clock of ticks, TicksPerSecond ticks to the second.   *)
(* Computation steps take no time: the clock advances only when every       *)
(* goroutine is blocked (on the mutex, on the network, asleep, or waiting   *)
(* for a request).                                                          *)
(***************************************************************************)
EXTENDS Integers, Sequences, FiniteSets, TLC

VARIABLES variant, blockDuration, healthyDuration, now, mu, lastBlock, pc,
          loc, resp, calls, requests, committed, gauge, usable

(* variant          which build runs                                        *)
(* blockDuration    flag geth.block-unit, ticks per unit of block timestamp *)
(* healthyDuration  flag geth.healthy-duration, in ticks                    *)
(* now              the clock                                               *)
(* mu, lastBlock    lastBlock.mu (its holder) and the cached snapshot       *)
(* pc, loc          position and locals of each goroutine                   *)
(* resp             the answer written to a request during this tick        *)
(* calls            the getLastBlock calls completed so recently that a     *)
(*                  later call can still fall within a second of them       *)
(* requests         requests accepted so far                                *)
(* committed        the snapshots stored by completed refreshes             *)
(* gauge            the head_duration_seconds gauge, in ticks               *)
(* usable           "unknown" before any head fetch, "none" once fetches    *)
(*                  have failed and none succeeded, "some" after a success  *)
vars == <<variant, blockDuration, healthyDuration, now, mu, lastBlock, pc,
          loc, resp, calls, requests, committed, gauge, usable>>

----------------------------------------------------------------------------
(* Bounds of the model *)

TicksPerSecond == 2      \* clock resolution
StartTime == 4           \* wall clock (ticks since the epoch) at process start
Horizon == 4             \* ticks of execution explored
NumHandlers == 1         \* goroutines serving requests concurrently
MaxRequests == 1         \* requests served in one run
MaxLag == 1              \* how many timestamp units a fetched head may lag
MaxReqTimeout == 1       \* longest client deadline, in seconds

LogWindow == 2           \* completed calls remembered

MaxTime == StartTime + Horizon

----------------------------------------------------------------------------
(* Program constants *)

Second == TicksPerSecond
RefreshWindow == Second               \* main.go:204, time.Second
CycleTimeout == 2 * Second            \* main.go:71
CycleSleep == Second                  \* main.go:75
StatusOK == 200
StatusInternalServerError == 500

\* uint64 / int64 arithmetic wraps; the model scales the 64-bit word down to
\* WordBits bits of ticks, far above every time the model reaches.
WordBits == 12
WordMod == 2 ^ WordBits

ZeroTime == -1                        \* time.Time{} : the zero value of UpdatedAt
MaxDuration == WordMod                \* time.Since saturates
NoDeadline == -1                      \* a context without deadline
GaugeUnset == -1                      \* headDuration never set
Free == -1                            \* lastBlock.mu unlocked
Poller == 0                           \* the stats goroutine
Handlers == 1 .. NumHandlers          \* goroutines serving /healthz
Procs == {Poller} \cup Handlers

NoErr == "nil"
RPCError == "rpc error"
DeadlineExceeded == "context deadline exceeded"

\* a block is its timestamp (Time()) and, as its identity, the time at which
\* BlockByNumber returned it; the nil block has neither
NilBlock == [id |-> ZeroTime, time |-> 0]
ZeroSnapshot == [Block |-> NilBlock, UpdatedAt |-> ZeroTime]

NoLocals == [mode |-> "none", deadline |-> NoDeadline, before |-> ZeroSnapshot,
             at |-> 0, seenAt |-> ZeroTime, net |-> FALSE, fetched |-> NilBlock,
             block |-> NilBlock, err |-> NoErr, fetchErr |-> NoErr, wake |-> 0]
NoResponse == [mode |-> "none", status |-> 0, body |-> "", err |-> NoErr,
               block |-> NilBlock, fetchErr |-> NoErr, upstreams |-> "unknown"]

----------------------------------------------------------------------------
(* Pure helpers *)

\* time.Since(t): now.Sub(t), saturating for the zero time
Since(t, u) == IF u = ZeroTime THEN MaxDuration ELSE t - u

\* a refresh window of one tick instead of one second
FreshWithinTick(t, updatedAt) == Since(t, updatedAt) < 1

\* main.go:204  time.Since(lastBlock.UpdatedAt) < time.Second
Fresh(t, updatedAt) == Since(t, updatedAt) < RefreshWindow

\* context deadline reached
Expired(deadline, t) == deadline # NoDeadline /\ t >= deadline

\* ts * uint64(blockDuration)
Mul64(a, b) == (a * b) % WordMod

\* int64(ts)
ToInt64(x) == IF x >= WordMod \div 2 THEN x - WordMod ELSE x

\* main.go:222-224 / part_001:84-86: the head's wall-clock time
HeadTime(block) == ToInt64(Mul64(block.time, blockDuration))

\* the threshold compared with <= instead of <
HeadIsRecentInclusive(block, t) == (t - HeadTime(block)) <= healthyDuration

\* main.go:225 / part_001:87
HeadIsRecent(block, t) == (t - HeadTime(block)) < healthyDuration

\* the error of the fetch ignored
IsLiveIgnoringError(err) == TRUE

\* main.go:230 / part_001:92
IsLiveResult(err) == err = NoErr

\* main.go:238 / part_001:100: the reason given when the head can not be fetched
CanNotGetReason == IF variant = "cached" THEN "can not get block"
                   ELSE "can not check last block status"

\* the err branch of the readiness mode left out
HealthzAnswerWithoutErrBranch(mode, ready, err) ==
    IF mode = "ready"
    THEN IF ~ready
         THEN [status |-> StatusInternalServerError, body |-> "not ready"]
         ELSE [status |-> StatusOK, body |-> "ready"]
    ELSE IF ~IsLiveResult(err)
         THEN [status |-> StatusInternalServerError, body |-> "not ok"]
         ELSE [status |-> StatusOK, body |-> "ok"]

\* main.go:233-257 / part_001:95-119: status and body of the answer
HealthzAnswer(mode, ready, err) ==
    IF mode = "ready"
    THEN IF err # NoErr
         THEN [status |-> StatusInternalServerError, body |-> CanNotGetReason]
         ELSE IF ~ready
              THEN [status |-> StatusInternalServerError, body |-> "not ready"]
              ELSE [status |-> StatusOK, body |-> "ready"]
    ELSE IF ~IsLiveResult(err)
         THEN [status |-> StatusInternalServerError, body |-> "not ok"]
         ELSE [status |-> StatusOK, body |-> "ok"]

\* the cache dropped when the fetch fails
CacheClearedOnFailure(cache, t) == ZeroSnapshot

\* the failure remembered as if it were a refresh
CacheStampedOnFailure(cache, t) == [cache EXCEPT !.UpdatedAt = t]

\* main.go:209-211: what a failed fetch leaves in the cache
CacheAfterFailure(cache, t) == cache

\* main.go:205: what a cache hit returns
HitReturn(cache) == cache.Block

\* main.go:210: what a failed fetch returns
FailureReturn(cache) == cache.Block

\* main.go:210: the error a failed fetch returns
FailureError(err) == err

\* the stored block left without its time stamp
UpdatedStampForgotten(t) == ZeroTime

\* main.go:213: the time stamped on a stored block
UpdatedStamp(t) == t

\* getLastBlock without its mutex
CanLockAlways(holder) == TRUE

\* main.go:201: sync.Mutex.Lock succeeds only on an unlocked mutex
CanLock(holder) == holder = Free

\* main.go:126: upstream.SingleHost forwards every request
ShouldForward(seen) == TRUE

\* blocks the node may report as its head at time t
HeadTimes(t) ==
    { ts \in 0 .. (t \div blockDuration) :
         (t \div blockDuration) - ts <= MaxLag }

----------------------------------------------------------------------------
Init ==
    /\ variant \in {"cached", "direct"}
    /\ blockDuration \in {1, Second}
    /\ healthyDuration = Second
    /\ now = StartTime
    /\ mu = Free
    /\ lastBlock = ZeroSnapshot
    /\ pc = [p \in Procs |-> IF p = Poller THEN "loop" ELSE "idle"]
    /\ loc = [p \in Procs |-> NoLocals]
    /\ resp = NoResponse
    /\ calls = <<>>
    /\ requests = 0
    /\ committed = {ZeroSnapshot}
    /\ gauge = GaugeUnset
    /\ usable = "unknown"

----------------------------------------------------------------------------
(* getLastBlock, main.go:200-215 *)

\* the record of the completed calls: the last LogWindow of them
Logged(log, call) ==
    IF Len(log) < LogWindow THEN Append(log, call)
    ELSE Append(Tail(log), call)

\* the deferred Unlock and the return to the caller; every call is logged
Return(p, block, fetchErr, cache) ==
    /\ mu' = Free
    /\ pc' = [pc EXCEPT ![p] = IF p = Poller THEN "gauge" ELSE "respond"]
    /\ loc' = [loc EXCEPT ![p].block = block, ![p].err = FailureError(fetchErr),
                          ![p].fetchErr = fetchErr]
    /\ calls' = Logged(calls,
                  [at |-> loc[p].at,
                   before |-> loc[p].before, after |-> cache,
                   seen |-> [Block |-> block, UpdatedAt |-> loc[p].seenAt],
                   net |-> loc[p].net, ret |-> block,
                   err |-> FailureError(fetchErr)])

\* main.go:201  lastBlock.mu.Lock()
Lock(p) ==
    /\ pc[p] = "lock"
    /\ CanLock(mu)
    /\ mu' = p
    /\ pc' = [pc EXCEPT ![p] = "check"]
    /\ loc' = [loc EXCEPT ![p].before = lastBlock]
    /\ UNCHANGED <<variant, blockDuration, healthyDuration, now, lastBlock,
                   resp, calls, requests, committed, gauge,
                   usable>>

\* main.go:204-206  the snapshot is fresh: return it
CacheHit(p) ==
    /\ pc[p] = "check"
    /\ Fresh(now, lastBlock.UpdatedAt)
    /\ LET l == [loc[p] EXCEPT !.at = now, !.seenAt = lastBlock.UpdatedAt]
       IN  /\ mu' = Free
           /\ pc' = [pc EXCEPT ![p] = IF p = Poller THEN "gauge" ELSE "respond"]
           /\ loc' = [loc EXCEPT ![p] = [l EXCEPT !.block = HitReturn(lastBlock),
                                                  !.err = NoErr]]
           /\ calls' = Logged(calls,
                  [at |-> now,
                   before |-> l.before, after |-> lastBlock,
                   seen |-> [Block |-> HitReturn(lastBlock),
                             UpdatedAt |-> lastBlock.UpdatedAt],
                   net |-> FALSE, ret |-> HitReturn(lastBlock), err |-> NoErr])
    /\ UNCHANGED <<variant, blockDuration, healthyDuration, now, lastBlock,
                   resp, requests, committed, gauge, usable>>

\* main.go:204,208  the snapshot is stale: call BlockByNumber
CacheMiss(p) ==
    /\ pc[p] = "check"
    /\ ~Fresh(now, lastBlock.UpdatedAt)
    /\ pc' = [pc EXCEPT ![p] = "fetch"]
    /\ loc' = [loc EXCEPT ![p].at = now, ![p].seenAt = lastBlock.UpdatedAt,
                          ![p].net = TRUE]
    /\ UNCHANGED <<variant, blockDuration, healthyDuration, now, mu, lastBlock,
                   resp, calls, requests, committed, gauge, usable>>

\* main.go:208  BlockByNumber answers with the node's head
FetchOK(p) ==
    /\ variant = "cached"
    /\ pc[p] = "fetch"
    /\ ~Expired(loc[p].deadline, now)
    /\ \E ts \in HeadTimes(now) :
          loc' = [loc EXCEPT ![p].fetched = [id |-> now, time |-> ts]]
    /\ pc' = [pc EXCEPT ![p] = "setBlock"]
    /\ usable' = "some"
    /\ UNCHANGED <<variant, blockDuration, healthyDuration, now, mu, lastBlock,
                   resp, calls, requests, committed, gauge>>

\* the error of a failing BlockByNumber
FetchError(p) ==
    IF Expired(loc[p].deadline, now) THEN DeadlineExceeded ELSE RPCError

\* main.go:208-211  BlockByNumber fails, or the caller's context expires
FetchFail(p) ==
    /\ variant = "cached"
    /\ pc[p] = "fetch"
    /\ lastBlock' = CacheAfterFailure(lastBlock, now)
    /\ Return(p, FailureReturn(lastBlock), FetchError(p), lastBlock')
    /\ usable' = IF usable = "some" THEN "some" ELSE "none"
    /\ UNCHANGED <<variant, blockDuration, healthyDuration, now, resp, requests, committed, gauge>>

\* main.go:212  lastBlock.Block = block
SetBlock(p) ==
    /\ pc[p] = "setBlock"
    /\ lastBlock' = [lastBlock EXCEPT !.Block = loc[p].fetched]
    /\ pc' = [pc EXCEPT ![p] = "setUpdatedAt"]
    /\ UNCHANGED <<variant, blockDuration, healthyDuration, now, mu, loc, resp,
                   calls, requests, committed, gauge, usable>>

\* main.go:213  lastBlock.UpdatedAt = time.Now()
SetUpdatedAt(p) ==
    /\ pc[p] = "setUpdatedAt"
    /\ lastBlock' = [lastBlock EXCEPT !.UpdatedAt = UpdatedStamp(now)]
    /\ committed' = committed \cup {[Block |-> loc[p].fetched, UpdatedAt |-> now]}
    /\ pc' = [pc EXCEPT ![p] = "return"]
    /\ loc' = [loc EXCEPT ![p].seenAt = lastBlock'.UpdatedAt]
    /\ UNCHANGED <<variant, blockDuration, healthyDuration, now, mu, resp,
                   calls, requests, gauge, usable>>

\* main.go:214  return lastBlock.Block, nil
ReturnStored(p) ==
    /\ pc[p] = "return"
    /\ Return(p, lastBlock.Block, NoErr, lastBlock)
    /\ UNCHANGED <<variant, blockDuration, healthyDuration, now, lastBlock,
                   resp, requests, committed, gauge, usable>>

----------------------------------------------------------------------------
(* the stats goroutine, main.go:67-77, and promUpdateHeadDuration, 281-297 *)

\* main.go:71-72  a new cycle under a 2 second deadline
Cycle ==
    /\ variant = "cached"
    /\ pc[Poller] = "loop"
    /\ pc' = [pc EXCEPT ![Poller] = "lock"]
    /\ loc' = [loc EXCEPT ![Poller] =
                  [NoLocals EXCEPT !.mode = "stats", !.deadline = now + CycleTimeout]]
    /\ UNCHANGED <<variant, blockDuration, healthyDuration, now, mu, lastBlock,
                   resp, calls, requests, committed, gauge,
                   usable>>

\* main.go:287-296  set the gauge unless no block is known; then sleep (75)
UpdateGauge ==
    /\ pc[Poller] = "gauge"
    /\ gauge' = IF loc[Poller].block = NilBlock THEN gauge
                ELSE now - HeadTime(loc[Poller].block)
    /\ pc' = [pc EXCEPT ![Poller] = "sleep"]
    /\ loc' = [loc EXCEPT ![Poller] = [NoLocals EXCEPT !.wake = now + CycleSleep]]
    /\ UNCHANGED <<variant, blockDuration, healthyDuration, now, mu, lastBlock,
                   resp, calls, requests, committed, usable>>

\* main.go:75  time.Sleep(time.Second) is over
Wake ==
    /\ pc[Poller] = "sleep"
    /\ now >= loc[Poller].wake
    /\ pc' = [pc EXCEPT ![Poller] = "loop"]
    /\ loc' = [loc EXCEPT ![Poller] = NoLocals]
    /\ UNCHANGED <<variant, blockDuration, healthyDuration, now, mu, lastBlock,
                   resp, calls, requests, committed, gauge,
                   usable>>

----------------------------------------------------------------------------
(* healthz, main.go:233-257 and part_001:95-119 *)

Deadlines == {NoDeadline} \cup {now + k * Second : k \in 1 .. MaxReqTimeout}

\* a request arrives; isReady / isLive call getLastBlock (main.go:218,229)
Healthz(p) ==
    /\ variant = "cached"
    /\ pc[p] = "idle"
    /\ \A q \in Handlers : q < p => pc[q] # "idle"
    /\ requests < MaxRequests
    /\ requests' = requests + 1
    /\ \E d \in Deadlines :
          loc' = [loc EXCEPT ![p] = [NoLocals EXCEPT !.mode = "healthz", !.deadline = d]]
    /\ pc' = [pc EXCEPT ![p] = "lock"]
    /\ UNCHANGED resp
    /\ UNCHANGED <<variant, blockDuration, healthyDuration, now, mu, lastBlock,
                   calls, committed, gauge, usable>>

\* a request arrives; isReady / isLive call BlockByNumber (part_001:80,91)
HealthzDirect(p) ==
    /\ variant = "direct"
    /\ pc[p] = "idle"
    /\ \A q \in Handlers : q < p => pc[q] # "idle"
    /\ requests < MaxRequests
    /\ requests' = requests + 1
    /\ \E d \in Deadlines :
          loc' = [loc EXCEPT ![p] = [NoLocals EXCEPT !.mode = "healthz", !.deadline = d,
                                                     !.at = now,
                                                     !.net = TRUE]]
    /\ pc' = [pc EXCEPT ![p] = "fetch"]
    /\ UNCHANGED resp
    /\ UNCHANGED <<variant, blockDuration, healthyDuration, now, mu, lastBlock,
                   calls, committed, gauge, usable>>

\* part_001:80,91  BlockByNumber answers with the node's head
DirectOK(p) ==
    /\ variant = "direct"
    /\ pc[p] = "fetch"
    /\ ~Expired(loc[p].deadline, now)
    /\ \E ts \in HeadTimes(now) :
          loc' = [loc EXCEPT ![p].block = [id |-> now, time |-> ts],
                             ![p].err = NoErr]
    /\ pc' = [pc EXCEPT ![p] = "respond"]
    /\ usable' = "some"
    /\ UNCHANGED <<variant, blockDuration, healthyDuration, now, mu, lastBlock,
                   resp, calls, requests, committed, gauge>>

\* part_001:81-83,91-92  BlockByNumber fails, or the request's context expires
DirectFail(p) ==
    /\ variant = "direct"
    /\ pc[p] = "fetch"
    /\ loc' = [loc EXCEPT ![p].block = NilBlock, ![p].err = FetchError(p),
                          ![p].fetchErr = FetchError(p)]
    /\ pc' = [pc EXCEPT ![p] = "respond"]
    /\ usable' = IF usable = "some" THEN "some" ELSE "none"
    /\ UNCHANGED <<variant, blockDuration, healthyDuration, now, mu, lastBlock,
                   resp, calls, requests, committed, gauge>>

\* main.go:219-225,230,235-256: isReady / isLive finish and healthz answers.
\* The request's ready parameter (main.go:235) has no effect before the head
\* is obtained, so the mode is drawn here.  block.Time() on a nil block is a
\* nil-pointer panic.
Respond(p) ==
    /\ pc[p] = "respond"
    /\ \E mode \in {"live", "ready"} :
        LET l == loc[p]
            panics == mode = "ready" /\ l.err = NoErr /\ l.block = NilBlock
            ready == l.err = NoErr /\ ~panics /\ HeadIsRecent(l.block, now)
            answer == IF panics THEN [status |-> 0, body |-> "panic"]
                      ELSE HealthzAnswer(mode, ready, l.err)
        IN  resp' = [mode |-> mode, status |-> answer.status,
                     body |-> answer.body, err |-> l.err, block |-> l.block,
                     fetchErr |-> l.fetchErr,
                     upstreams |-> usable]
    /\ pc' = [pc EXCEPT ![p] = "idle"]
    /\ loc' = [loc EXCEPT ![p] = NoLocals]
    /\ UNCHANGED <<variant, blockDuration, healthyDuration, now, mu, lastBlock,
                   calls, requests, committed, gauge, usable>>

----------------------------------------------------------------------------
(* the proxy route, main.go:125-128 and part_001:72-75 *)

\* a request for any other path is handed to upstream.SingleHost
Proxy(p) ==
    /\ pc[p] = "idle"
    /\ \A q \in Handlers : q < p => pc[q] # "idle"
    /\ requests < MaxRequests
    /\ requests' = requests + 1
    /\ resp' = [NoResponse EXCEPT
                  !.mode = "proxy",
                  !.body = IF ShouldForward(usable) THEN "forwarded"
                           ELSE "no upstream available",
                  !.upstreams = usable]
    /\ UNCHANGED <<variant, blockDuration, healthyDuration, now, mu, lastBlock,
                   pc, loc, calls, committed, gauge, usable>>

----------------------------------------------------------------------------
(* the clock *)

Blocked(p) ==
    \/ pc[p] = "idle"
    \/ pc[p] = "loop" /\ variant = "direct"
    \/ pc[p] = "sleep" /\ now < loc[p].wake
    \/ pc[p] = "fetch" /\ ~Expired(loc[p].deadline, now)
    \/ pc[p] = "lock" /\ ~CanLock(mu)

\* p is inside getLastBlock, past the freshness check
InCall(p) == pc[p] \in {"fetch", "setBlock", "setUpdatedAt", "return"}

Tick ==
    /\ now < MaxTime
    /\ \A p \in Procs : Blocked(p)
    /\ now' = now + 1
    /\ resp' = NoResponse
    /\ calls' = IF \E p \in Procs : InCall(p) THEN calls
                ELSE SelectSeq(calls, LAMBDA c : now' - c.at < Second)
    /\ UNCHANGED <<variant, blockDuration, healthyDuration, mu, lastBlock, pc,
                   loc, requests, committed, gauge, usable>>

----------------------------------------------------------------------------
Next ==
    \/ \E p \in Procs : Lock(p)
    \/ \E p \in Procs : CacheHit(p)
    \/ \E p \in Procs : CacheMiss(p)
    \/ \E p \in Procs : FetchOK(p)
    \/ \E p \in Procs : FetchFail(p)
    \/ \E p \in Procs : SetBlock(p)
    \/ \E p \in Procs : SetUpdatedAt(p)
    \/ \E p \in Procs : ReturnStored(p)
    \/ Cycle
    \/ UpdateGauge
    \/ Wake
    \/ \E p \in Handlers : Healthz(p)
    \/ \E p \in Handlers : HealthzDirect(p)
    \/ \E p \in Handlers : DirectOK(p)
    \/ \E p \in Handlers : DirectFail(p)
    \/ \E p \in Handlers : Respond(p)
    \/ \E p \in Handlers : Proxy(p)
    \/ Tick

Spec == Init /\ [][Next]_vars

----------------------------------------------------------------------------
(* Properties *)

CallPairs == { <<i, j>> \in (1 .. Len(calls)) \X (1 .. Len(calls)) : i < j }
Logged_(P(_)) == \A i \in 1 .. Len(calls) : P(calls[i])
Within1s(i, j) == calls[j].at - calls[i].at < Second
InGetLastBlock(p) ==
    pc[p] \in {"lock", "check", "fetch", "setBlock", "setUpdatedAt", "return"}
HeadAge(block) == now - block.time * blockDuration

\* C1 (as stated): any two getLastBlock calls made within one second of each
\* other return the identical snapshot and issue at most one BlockByNumber
\* call between them, whatever the cache held and whether the fetch failed.
C1_AnyTwoCallsShareOneFetch ==
    \A pr \in CallPairs :
        Within1s(pr[1], pr[2]) =>
            /\ calls[pr[1]].ret = calls[pr[2]].ret
            /\ ~(calls[pr[1]].net /\ calls[pr[2]].net)

\* C1 (amended): when the earlier of two getLastBlock calls made within one
\* second of each other fetched and stored a block, the later call returns
\* that same block without error and without a BlockByNumber call of its own.
C1_CallsAfterRefreshShareIt ==
    \A pr \in CallPairs :
        (Within1s(pr[1], pr[2]) /\ calls[pr[1]].net /\ calls[pr[1]].err = NoErr) =>
            /\ calls[pr[2]].ret = calls[pr[1]].ret
            /\ calls[pr[2]].err = NoErr
            /\ ~calls[pr[2]].net

C1_Witness ==
    \E pr \in CallPairs :
        /\ Within1s(pr[1], pr[2])
        /\ calls[pr[1]].net /\ calls[pr[1]].err = NoErr
        /\ calls[pr[2]].at > calls[pr[1]].at
        /\ calls[pr[2]].ret = calls[pr[1]].ret

\* C2: a getLastBlock call that finds the snapshot fresh (younger than one
\* second) returns the cached block with a nil error, calls BlockByNumber not
\* at all, and leaves lastBlock.Block and lastBlock.UpdatedAt as they were.
C2_FreshCallReturnsCache ==
    Logged_(LAMBDA c :
        (c.before.UpdatedAt # ZeroTime /\ c.at - c.before.UpdatedAt < Second) =>
            /\ c.ret = c.before.Block
            /\ c.err = NoErr
            /\ ~c.net
            /\ c.after = c.before)

C2_Witness ==
    \E i \in 1 .. Len(calls) :
        /\ calls[i].before.UpdatedAt # ZeroTime
        /\ calls[i].at - calls[i].before.UpdatedAt = Second - 1
        /\ ~calls[i].net
        /\ calls[i].ret # NilBlock

\* C3: a getLastBlock call whose fetch fails returns the block cached before
\* the call (nil when none was ever stored) together with the error, and the
\* cache after the call is the cache before it.
C3_FailedFetchKeepsCache ==
    Logged_(LAMBDA c :
        (c.net /\ c.err # NoErr) =>
            /\ c.ret = c.before.Block
            /\ c.after = c.before)

C3_Witness ==
    \E i \in 1 .. Len(calls) :
        /\ calls[i].net /\ calls[i].err # NoErr
        /\ calls[i].before.Block # NilBlock
        /\ calls[i].ret = calls[i].before.Block

\* C4: a liveness query answers live exactly when the head was obtained
\* without error; a fetch that failed during the query makes it answer
\* not-live even though a block was cached earlier.
C4_LiveIffNoError ==
    resp.mode = "live" =>
        /\ (resp.status = StatusOK) <=> (resp.err = NoErr)
        /\ resp.fetchErr # NoErr => resp.status = StatusInternalServerError
        /\ resp.status \in {StatusOK, StatusInternalServerError}

C4_Witness ==
    /\ resp.mode = "live"
    /\ resp.fetchErr # NoErr
    /\ resp.block # NilBlock
    /\ resp.status = StatusInternalServerError

\* C5: a readiness query whose head was obtained without error answers ready
\* exactly when now - blockTimestamp * blockUnit < healthyDuration; at the
\* boundary (equal to healthyDuration) and beyond it answers not ready.
C5_ReadyIffHeadRecent ==
    (resp.mode = "ready" /\ resp.err = NoErr) =>
        /\ (resp.status = StatusOK) <=> (HeadAge(resp.block) < healthyDuration)
        /\ HeadAge(resp.block) >= healthyDuration => resp.body = "not ready"

C5_Witness ==
    /\ resp.mode = "ready" /\ resp.err = NoErr
    /\ blockDuration = Second
    /\ HeadAge(resp.block) = healthyDuration
    /\ resp.body = "not ready"

\* C6: healthz answers 200 only when the head was obtained without error
\* (and, in readiness mode, is younger than healthyDuration); an error in
\* readiness mode is answered with the failure status and a reason of its
\* own, not the plain "not ready".
C6_NeverHealthyOnFailure ==
    resp.mode \in {"live", "ready"} =>
        /\ resp.status = StatusOK =>
              /\ resp.err = NoErr
              /\ resp.mode = "ready" => HeadAge(resp.block) < healthyDuration
        /\ (resp.mode = "ready" /\ resp.err # NoErr) =>
              /\ resp.status = StatusInternalServerError
              /\ resp.body \notin {"not ready", "ready", "ok", "not ok", ""}

C6_Witness ==
    /\ resp.mode = "ready"
    /\ resp.err # NoErr
    /\ resp.block # NilBlock
    /\ resp.status = StatusInternalServerError

\* C7 (as stated): every getLastBlock call has returned by its caller's
\* deadline, the 2-second deadline of a poll cycle included, whatever the
\* other callers are doing.
C7_CallsReturnByDeadline ==
    \A p \in Procs :
        (InGetLastBlock(p) /\ loc[p].deadline # NoDeadline) =>
            now <= loc[p].deadline

\* C8: the (Block, UpdatedAt) pair a getLastBlock call reads and returns is
\* always a pair some completed refresh stored (or the initial empty pair),
\* never the Block of one refresh with the UpdatedAt of another.
C8_NoTornSnapshot ==
    /\ Logged_(LAMBDA c : c.seen \in committed)
    /\ \A p \in Procs : pc[p] = "check" => lastBlock \in committed

C8_Witness ==
    \E p, q \in Procs :
        /\ pc[p] = "setUpdatedAt"
        /\ pc[q] = "lock"
        /\ lastBlock \notin committed

\* C9 (as stated): a proxied request that arrives when no upstream is usable
\* (every head fetch has failed, no snapshot was ever obtained) is refused
\* with "no upstream available" and not forwarded.
C9_NoDispatchWithoutUpstream ==
    (resp.mode = "proxy" /\ resp.upstreams = "none") => resp.body # "forwarded"

\* C10: lastBlock.UpdatedAt is set only if lastBlock.Block is; a getLastBlock
\* call returning a nil error returns a block, a nil block comes only with
\* an error; isReady never takes the timestamp of a nil block and the gauge
\* is set only from a block.
C10_NoErrorMeansBlock ==
    /\ lastBlock.UpdatedAt # ZeroTime => lastBlock.Block # NilBlock
    /\ Logged_(LAMBDA c : (c.err = NoErr) => (c.ret # NilBlock))
    /\ resp.body # "panic"
    /\ gauge # GaugeUnset => lastBlock.Block # NilBlock

C10_Witness ==
    /\ pc[Poller] = "sleep"
    /\ gauge = GaugeUnset
    /\ Len(calls) > 0
    /\ calls[Len(calls)].ret = NilBlock
    /\ calls[Len(calls)].err # NoErr
    /\ calls[Len(calls)].net
====
